---------------------------- MODULE Spec2Model ----------------------------
(* A model of the selection engine of src/api/selections.ts and           *)
(* src/api/selection.ts: the Selections collection (constructor, sort,    *)
(* rotate, lines, split, selectWithin, merge) and the pure helpers of     *)
(* selection.ts, over a small fixed document.                             *)
EXTENDS Integers, Sequences, FiniteSets, TLC

VARIABLES selections, primarySelection, lastOp, args, ret, derivations

vars == <<selections, primarySelection, lastOp, args, ret, derivations>>

-----------------------------------------------------------------------------
(* Bounds of the model.                                                   *)

\* Largest number of selections handed to the constructor in Spec.
MaxSelections == 2

\* Largest number of selections handed to the constructor in SpecMerge.
MaxMerged == 3

\* Largest number of split and selectWithin calls in a behaviour.
MaxDerivations == 1

\* rotate(by) is tried with every by in -MaxRotate..MaxRotate.
MaxRotate == 3

-----------------------------------------------------------------------------
(* The document: three lines "a", "" and "b"; a line break counts as one  *)
(* character, as in vscode.TextDocument.offsetAt.                         *)

DocLines == << <<"a">>, <<>>, <<"b">> >>

LineBreak == "\n"

lineCount == Len(DocLines)

\* document.lineAt(line).text.length, lines numbered from 0
lineLength(line) == Len(DocLines[line + 1])

Position(line, character) == [line |-> line, character |-> character]

RECURSIVE maxLineLength(_)
maxLineLength(n) == IF n = 0 THEN 0
                    ELSE LET m == maxLineLength(n - 1)
                         IN  IF lineLength(n - 1) > m THEN lineLength(n - 1) ELSE m

\* Every valid position of the document.
Positions == { p \in [line : 0..(lineCount - 1), character : 0..maxLineLength(lineCount)] :
                 p.character <= lineLength(p.line) }

RECURSIVE lineOffset(_)
lineOffset(line) == IF line = 0 THEN 0
                    ELSE lineOffset(line - 1) + lineLength(line - 1) + 1

offsetAt(p) == lineOffset(p.line) + p.character

positionAt(offset) == CHOOSE p \in Positions : offsetAt(p) = offset

DocLength == offsetAt(Position(lineCount - 1, lineLength(lineCount - 1)))

\* The character of the document at an offset (0-based).
charAt(offset) ==
    LET p == positionAt(offset)
    IN  IF p.character < lineLength(p.line)
        THEN DocLines[p.line + 1][p.character + 1]
        ELSE LineBreak

-----------------------------------------------------------------------------
(* vscode.Position comparisons: by line, then by character.               *)

compareTo(p, q) ==
    IF p.line < q.line THEN -1
    ELSE IF p.line > q.line THEN 1
    ELSE IF p.character < q.character THEN -1
    ELSE IF p.character > q.character THEN 1
    ELSE 0

isBefore(p, q)        == compareTo(p, q) < 0
isBeforeOrEqual(p, q) == compareTo(p, q) <= 0
isAfter(p, q)         == compareTo(p, q) > 0
isAfterOrEqual(p, q)  == compareTo(p, q) >= 0
isEqual(p, q)         == compareTo(p, q) = 0

-----------------------------------------------------------------------------
(* vscode.Selection: anchor and active, with an identity (id) standing    *)
(* for the JavaScript object, so that indexOf and === can be modelled.    *)

Selection(anchor, active, id) == [anchor |-> anchor, active |-> active, id |-> id]

NoPosition == [line |-> -1, character |-> -1]

\* JavaScript's undefined where a selection is expected.
Undefined == Selection(NoPosition, NoPosition, 0)

start(s) == IF isBefore(s.anchor, s.active) THEN s.anchor ELSE s.active
end(s)   == IF isBefore(s.anchor, s.active) THEN s.active ELSE s.anchor

isEmpty(s) == isEqual(s.anchor, s.active)

\* vscode.Selection.isReversed is anchor === end, true of empty selections too.
isReversed(s) == ~isBefore(s.anchor, s.active)

\* The value of a selection without the object identity.
value(s) == <<s.anchor, s.active>>

values(sels) == [k \in 1..Len(sels) |-> value(sels[k])]

ids(sels) == { sels[k].id : k \in 1..Len(sels) }

\* The smallest identity not in use: what `new vscode.Selection` yields.
freshId(used) == CHOOSE n \in 1..(Cardinality(used) + 1) :
                    /\ n \notin used
                    /\ \A m \in 1..(n - 1) : m \in used

fromStartEnd(s, e, reversed, id) ==
    IF reversed THEN Selection(e, s, id) ELSE Selection(s, e, id)

-----------------------------------------------------------------------------
(* Selections.sort: Array.prototype.sort is stable, so equal starts keep  *)
(* their relative order.                                                  *)

\* A faulty variant: the selections are compared by their ends.
insertSorted_ByEnd(sorted, s) ==
    LET k == Cardinality({ n \in 1..Len(sorted) :
                             compareTo(end(sorted[n]), end(s)) <= 0 })
    IN  SubSeq(sorted, 1, k) \o <<s>> \o SubSeq(sorted, k + 1, Len(sorted))

insertSorted(sorted, s) ==
    LET k == Cardinality({ n \in 1..Len(sorted) :
                             compareTo(start(sorted[n]), start(s)) <= 0 })
    IN  SubSeq(sorted, 1, k) \o <<s>> \o SubSeq(sorted, k + 1, Len(sorted))

RECURSIVE sort(_)
sort(sels) ==
    IF sels = <<>> THEN <<>>
    ELSE insertSorted(sort(SubSeq(sels, 1, Len(sels) - 1)), sels[Len(sels)])

\* Array.prototype.indexOf with ===, 0-based, -1 when absent.
indexOf(sels, s) ==
    IF \E k \in 1..Len(sels) : sels[k].id = s.id
    THEN (CHOOSE k \in 1..Len(sels) :
             /\ sels[k].id = s.id
             /\ \A m \in 1..(k - 1) : sels[m].id # s.id) - 1
    ELSE -1

\* array[index] for a 0-based index that may be out of range.
nth(sels, index) ==
    IF index >= 0 /\ index < Len(sels) THEN sels[index + 1] ELSE Undefined

\* JavaScript's %: the result takes the sign of the dividend.
jsRemainder(a, n) == IF a >= 0 THEN a % n ELSE -((-a) % n)

\* The selection rotate(by) makes primary; x % 0 is NaN and array[NaN] is undefined.
rotateResult(sels, primary, by) ==
    IF Len(sels) = 0 THEN Undefined
    ELSE nth(sels, jsRemainder(indexOf(sels, primary) + by, Len(sels)))

-----------------------------------------------------------------------------
(* selection.ts: endLine and overlap.                                     *)

endLine(s) ==
    IF start(s).line # end(s).line /\ end(s).character = 0
    THEN end(s).line - 1
    ELSE end(s).line

overlap(a, b) ==
    /\ ~(\/ end(a).line < start(b).line
         \/ (end(a).line = end(b).line /\ end(a).character < start(b).character))
    /\ ~(\/ end(b).line < start(a).line
         \/ (end(b).line = end(a).line /\ end(b).character < start(a).character))

-----------------------------------------------------------------------------
(* selection.ts: the end of a selection, its length and its shape.        *)

endCharacter(s) ==
    IF start(s).line # end(s).line /\ end(s).character = 0
    THEN lineLength(end(s).line - 1) + 1
    ELSE end(s).character

endPosition(s) ==
    LET line == endLine(s)
    IN  IF line # end(s).line
        THEN Position(line, lineLength(line))
        ELSE end(s)

\* A faulty variant: the line break wrapped by the selection is not required
\* to be its only character.
isSingleCharacter_AnyStartCharacter(s) ==
    IF start(s).line = end(s).line
    THEN start(s).character = end(s).character - 1
    ELSE IF start(s).line = end(s).line - 1
    THEN end(s).character = 0
    ELSE FALSE

isSingleCharacter(s) ==
    IF start(s).line = end(s).line
    THEN start(s).character = end(s).character - 1
    ELSE IF start(s).line = end(s).line - 1
    THEN end(s).character = 0 /\ lineLength(start(s).line) = start(s).character
    ELSE FALSE

length(s) ==
    IF start(s).line = end(s).line
    THEN end(s).character - start(s).character
    ELSE offsetAt(end(s)) - offsetAt(start(s))

\* context.selectionBehavior
SelectionBehavior == {"Caret", "Character"}

isNonDirectional(s, selectionBehavior) ==
    /\ selectionBehavior = "Character"
    /\ ~isReversed(s)
    /\ isSingleCharacter(s)

isStrictlyReversed(s, selectionBehavior) ==
    IF isEmpty(s) \/ ~isReversed(s)
    THEN FALSE
    ELSE ~isNonDirectional(s, selectionBehavior)

isEntireLine(s) ==
    /\ start(s).character = 0
    /\ end(s).character = 0
    /\ start(s).line = end(s).line - 1

\* A faulty variant: a single entire line is not counted.
isEntireLines_MoreThanOne(s) ==
    /\ start(s).character = 0
    /\ end(s).character = 0
    /\ start(s).line < end(s).line - 1

isEntireLines(s) ==
    /\ start(s).character = 0
    /\ end(s).character = 0
    /\ start(s).line # end(s).line

-----------------------------------------------------------------------------
(* positions.ts: stepping one character, across line breaks; there is no  *)
(* position before the first one nor after the last one.                  *)

NoSuchPosition == NoPosition

previous(p) ==
    IF p.character > 0 THEN Position(p.line, p.character - 1)
    ELSE IF p.line > 0 THEN Position(p.line - 1, lineLength(p.line - 1))
    ELSE NoSuchPosition

next(p) ==
    IF p.character < lineLength(p.line) THEN Position(p.line, p.character + 1)
    ELSE IF p.line < lineCount - 1 THEN Position(p.line + 1, 0)
    ELSE NoSuchPosition

\* a ?? b
orElse(p, q) == IF p = NoSuchPosition THEN q ELSE p

-----------------------------------------------------------------------------
(* selection.ts: seekFrom. The reference position is compared with         *)
(* selection.start and selection.end by ===, so it is given as the object  *)
(* it is: the active or the anchor of the selection, or another object.    *)
(* vscode.Range keeps the objects it is given: start is the anchor when    *)
(* the anchor is before the active and the active otherwise, end is the    *)
(* other one. An empty selection may be made of one object or of two.      *)

Direction == {"Backward", "Forward"}

References == {"active", "anchor", "other"}

startObject(s) == IF isBefore(s.anchor, s.active) THEN "anchor" ELSE "active"
endObject(s)   == IF isBefore(s.anchor, s.active) THEN "active" ELSE "anchor"

\* position === selection.start and position === selection.end
isStartObject(s, reference, oneObject) ==
    /\ reference # "other"
    /\ reference = startObject(s) \/ (oneObject /\ isEmpty(s))

isEndObject(s, reference, oneObject) ==
    /\ reference # "other"
    /\ reference = endObject(s) \/ (oneObject /\ isEmpty(s))

referencePosition(s, reference, other) ==
    IF reference = "active" THEN s.active
    ELSE IF reference = "anchor" THEN s.anchor
    ELSE other

\* A faulty variant: the seek moves along the direction.
seekFrom_AlongDirection(s, direction, reference, oneObject, other, selectionBehavior) ==
    LET position == referencePosition(s, reference, other)
    IN  IF selectionBehavior = "Character"
        THEN IF direction = "Forward"
             THEN IF isStartObject(s, reference, oneObject) THEN position
                  ELSE orElse(next(position), position)
             ELSE IF isEndObject(s, reference, oneObject) THEN position
                  ELSE orElse(previous(position), position)
        ELSE position

seekFrom(s, direction, reference, oneObject, other, selectionBehavior) ==
    LET position == referencePosition(s, reference, other)
    IN  IF selectionBehavior = "Character"
        THEN IF direction = "Forward"
             THEN IF isStartObject(s, reference, oneObject) THEN position
                  ELSE orElse(previous(position), position)
             ELSE IF isEndObject(s, reference, oneObject) THEN position
                  ELSE orElse(next(position), position)
        ELSE position

-----------------------------------------------------------------------------
(* context.ts: the conversions between caret mode and character mode.     *)

\* active < anchor
isReversedStrictly(s) == isBefore(s.active, s.anchor)

\* An empty selection is widened by one character forward, when there is
\* a next position.
selectionToCharacterMode(s) ==
    IF isEmpty(s) /\ ~isReversedStrictly(s) /\ next(s.active) # NoSuchPosition
    THEN Selection(s.anchor, next(s.active), s.id)
    ELSE s

\* A non-reversed selection of one character is narrowed to its start.
selectionFromCharacterMode(s) ==
    IF ~isReversedStrictly(s) /\ isSingleCharacter(s)
    THEN Selection(start(s), start(s), s.id)
    ELSE s

toCharacterMode(sels) == [k \in 1..Len(sels) |-> selectionToCharacterMode(sels[k])]

fromCharacterMode(sels) == [k \in 1..Len(sels) |-> selectionFromCharacterMode(sels[k])]

-----------------------------------------------------------------------------
(* Selections.lines.                                                      *)

contains(seq, x) == \E k \in 1..Len(seq) : seq[k] = x

\* The lines a, a + 1, ..., b as a sequence (empty when b < a).
lineRange(a, b) == [k \in 1..(IF b >= a THEN b - a + 1 ELSE 0) |-> a + k - 1]

linesOfSelection(acc, s) ==
    LET startLine == start(s).line
        endLine_  == endLine(s)
        l1 == IF contains(acc, startLine) THEN acc ELSE Append(acc, startLine)
        l2 == l1 \o lineRange(startLine + 1, endLine_ - 1)
    IN  IF endLine_ # startLine /\ ~contains(l2, endLine_)
        THEN Append(l2, endLine_)
        ELSE l2

RECURSIVE linesFrom(_, _, _)
linesFrom(sels, k, acc) ==
    IF k > Len(sels) THEN acc
    ELSE linesFrom(sels, k + 1, linesOfSelection(acc, sels[k]))

lines(sels) == linesFrom(sels, 1, <<>>)

-----------------------------------------------------------------------------
(* Selections.merge. newSelections is undefined until the first change;   *)
(* it is modelled as [defined, value].                                    *)

NoSelections == [defined |-> FALSE, value |-> <<>>]

Some(sels) == [defined |-> TRUE, value |-> sels]

\* newSelections ??= this.selections.slice(0, i), with i counted from 1 here
sliceIfUndefined(new, sels, i) ==
    IF new.defined THEN new ELSE Some(SubSeq(sels, 1, i - 1))

\* `continue`: on to j + 1 with the loop state st.
mergeContinue(st) == [st EXCEPT !.j = @ + 1]

\* A faulty variant: B is not marked as consumed before the restart.
mergeAbsorb_KeepsB(st, i) ==
    [st EXCEPT !.changed = TRUE,
               !.restarts = @ + 1,
               !.j = i + 1]

\* Lines 298-303: B is consumed and the scan restarts right after i;
\* restarts counts the restarts of the scan for the current i.
mergeAbsorb(st, i) ==
    [st EXCEPT !.changed = TRUE,
               !.ignoreSelections = @ \cup {st.j},
               !.restarts = @ + 1,
               !.j = i + 1]

\* Line 248: the test that the empty selection A is included in B.
emptyIncludedIn(aStart, bStart, bEnd) ==
    isBeforeOrEqual(bStart, aStart) /\ isAfterOrEqual(bEnd, bStart)

\* Lines 264-266: the test that selection A starts within selection B.
startsWithin(aStart, bStart, bEnd, alsoMergeConsecutiveSelections) ==
    /\ isAfterOrEqual(aStart, bStart)
    /\ \/ isBefore(aStart, bEnd)
       \/ (alsoMergeConsecutiveSelections /\ isEqual(aStart, bEnd))

\* A faulty variant of endsWithin: the upper bound aEnd <= bEnd is dropped,
\* so that a B inside A counts as holding the end of A.
endsWithin_NoUpperBound(aEnd, bStart, bEnd, alsoMergeConsecutiveSelections) ==
    \/ isAfter(aEnd, bStart)
    \/ (alsoMergeConsecutiveSelections /\ isEqual(aEnd, bStart))

\* A faulty variant of endsWithin: the consecutive case is left out.
endsWithin_IgnoresConsecutive(aEnd, bStart, bEnd, alsoMergeConsecutiveSelections) ==
    isAfter(aEnd, bStart) /\ isBeforeOrEqual(aEnd, bEnd)

\* Lines 284-286: the test that selection A ends within selection B.
endsWithin(aEnd, bStart, bEnd, alsoMergeConsecutiveSelections) ==
    /\ \/ isAfter(aEnd, bStart)
       \/ (alsoMergeConsecutiveSelections /\ isEqual(aEnd, bStart))
    /\ isBeforeOrEqual(aEnd, bEnd)

\* One pass of the body of the inner loop (lines 226-303) for a B that is
\* not ignored.
mergeInnerStep(sels, alsoMergeConsecutiveSelections, i, st) ==
    LET b      == sels[st.j]
        bStart == start(b)
        bEnd   == end(b)
        aStart == st.aStart
        aEnd   == st.aEnd
    IN
    IF st.aIsEmpty THEN
        IF isEqual(bStart, bEnd) THEN
            IF isEqual(bStart, aStart)
            THEN mergeContinue([st EXCEPT !.ignoreSelections = @ \cup {st.j},
                                          !.changed = TRUE])
            ELSE mergeContinue(st)
        ELSE IF emptyIncludedIn(aStart, bStart, bEnd)
        THEN mergeContinue([st EXCEPT !.aStart = bStart,
                                      !.aEnd = bEnd,
                                      !.aIsEmpty = FALSE,
                                      !.changed = TRUE,
                                      !.ignoreSelections = @ \cup {st.j}])
        ELSE mergeContinue(st)
    ELSE IF startsWithin(aStart, bStart, bEnd, alsoMergeConsecutiveSelections)
    THEN
        IF isBeforeOrEqual(aEnd, bEnd)
        THEN mergeAbsorb([st EXCEPT !.aStart = bStart, !.aEnd = bEnd], i)
        ELSE IF isEqual(aStart, bStart)
        THEN mergeContinue([st EXCEPT
                 !.ignoreSelections = @ \cup {st.j},
                 !.newSelections = sliceIfUndefined(@, sels, i)])
        ELSE mergeAbsorb([st EXCEPT !.aStart = bStart], i)
    ELSE IF endsWithin(aEnd, bStart, bEnd, alsoMergeConsecutiveSelections)
    THEN mergeAbsorb([st EXCEPT !.aEnd = bEnd], i)
    ELSE mergeContinue(st)

\* The inner loop, for (let j = i + 1; j < len; j++). A scan that has
\* restarted more often than there are selections is cut, so that a scan
\* without end shows in the count of its restarts.
RECURSIVE mergeInner(_, _, _, _)
mergeInner(sels, alsoMergeConsecutiveSelections, i, st) ==
    IF st.j > Len(sels) \/ st.restarts > Len(sels) THEN st
    ELSE IF st.j \in st.ignoreSelections
    THEN mergeInner(sels, alsoMergeConsecutiveSelections, i, mergeContinue(st))
    ELSE mergeInner(sels, alsoMergeConsecutiveSelections, i,
                    mergeInnerStep(sels, alsoMergeConsecutiveSelections, i, st))

\* Lines 306-320: what the outer loop pushes once the scan for i is over.
mergePush(sels, avoid, i, st) ==
    IF st.changed THEN
        LET base == sliceIfUndefined(st.newSelections, sels, i).value
        IN  Some(Append(base,
                        fromStartEnd(st.aStart, st.aEnd, isReversed(sels[i]),
                                     freshId(avoid \cup ids(base)))))
    ELSE IF st.newSelections.defined
    THEN Some(Append(st.newSelections.value, sels[i]))
    ELSE st.newSelections

\* The outer loop, for (let i = 0; i < len; i++). avoid holds the
\* identities of the objects that exist already; restarts holds, for each
\* i passed, the number of restarts of its scan.
RECURSIVE mergeOuter(_, _, _, _, _, _, _)
mergeOuter(sels, alsoMergeConsecutiveSelections, avoid, i, ignoreSelections, newSelections, restarts) ==
    IF i > Len(sels) THEN [newSelections |-> newSelections, restarts |-> restarts]
    ELSE IF i \in ignoreSelections
    THEN mergeOuter(sels, alsoMergeConsecutiveSelections, avoid, i + 1,
                    ignoreSelections, newSelections, Append(restarts, 0))
    ELSE
        LET a  == sels[i]
            st == mergeInner(sels, alsoMergeConsecutiveSelections, i,
                      [j                |-> i + 1,
                       aStart           |-> start(a),
                       aEnd             |-> end(a),
                       aIsEmpty         |-> isEqual(start(a), end(a)),
                       changed          |-> FALSE,
                       restarts         |-> 0,
                       ignoreSelections |-> ignoreSelections,
                       newSelections    |-> newSelections])
        IN  mergeOuter(sels, alsoMergeConsecutiveSelections, avoid, i + 1,
                       st.ignoreSelections, mergePush(sels, avoid, i, st),
                       Append(restarts, st.restarts))

\* The two loops of merge, from i = 0 with nothing ignored.
mergeSweep(sels, primary, alsoMergeConsecutiveSelections) ==
    mergeOuter(sels, alsoMergeConsecutiveSelections,
               ids(sels) \cup {primary.id}, 1, {}, NoSelections, <<>>)

\* The selections merge leaves in this.selections.
merge(sels, primary, alsoMergeConsecutiveSelections) ==
    LET newSelections == mergeSweep(sels, primary, alsoMergeConsecutiveSelections).newSelections
    IN  IF newSelections.defined THEN newSelections.value ELSE sels

\* The number of restarts of the inner scan, for each i.
mergeRestarts(sels, primary, alsoMergeConsecutiveSelections) ==
    mergeSweep(sels, primary, alsoMergeConsecutiveSelections).restarts

mergeOverlapping(sels, primary) == merge(sels, primary, FALSE)

mergeConsecutive(sels, primary) == merge(sels, primary, TRUE)

-----------------------------------------------------------------------------
(* Selections.split and Selections.selectWithin. A regular expression is  *)
(* modelled as a sequence of character classes, one per character it      *)
(* matches, followed by a text that is looked at but not matched.         *)

RegExp(classes, ahead) == [classes |-> classes, ahead |-> ahead]

AnyCharacter == {"a", "b", LineBreak}

\* /\n/, /a(?=\n\n)/ and /[^][^]/
RegExps == { RegExp(<<{LineBreak}>>, <<>>),
             RegExp(<<{"a"}>>, <<LineBreak, LineBreak>>),
             RegExp(<<AnyCharacter, AnyCharacter>>, <<>>) }

\* document.getText(selection), as a sequence of characters
getText(s) ==
    [k \in 1..(offsetAt(end(s)) - offsetAt(start(s))) |->
        charAt(offsetAt(start(s)) + k - 1)]

\* Whether re matches text at the 0-based index k; the lookahead sees the
\* text of the selection only.
matchesAt(text, re, k) ==
    /\ k + Len(re.classes) + Len(re.ahead) <= Len(text)
    /\ \A m \in 1..Len(re.classes) : text[k + m] \in re.classes[m]
    /\ \A m \in 1..Len(re.ahead) : text[k + Len(re.classes) + m] = re.ahead[m]

\* execRange(text, re): the [start, end) of every match, in order.
RECURSIVE execRange(_, _, _)
execRange(text, re, k) ==
    IF k >= Len(text) THEN <<>>
    ELSE IF matchesAt(text, re, k)
    THEN << <<k, k + Len(re.classes)>> >> \o execRange(text, re, k + Len(re.classes))
    ELSE execRange(text, re, k + 1)

\* splitRange(text, re): the [start, end) of the sections between matches.
RECURSIVE splitRange(_, _, _, _)
splitRange(text, re, k, sectionStart) ==
    IF k >= Len(text) THEN << <<sectionStart, Len(text)>> >>
    ELSE IF matchesAt(text, re, k)
    THEN << <<sectionStart, k>> >>
            \o splitRange(text, re, k + Len(re.classes), k + Len(re.classes))
    ELSE splitRange(text, re, k + 1, sectionStart)

\* .map(([start, end]) => fromStartEnd(offset + start, offset + end, isReversed))
\* the identities are given once the arrays are flattened.
rangesToSelections(s, ranges) ==
    [k \in 1..Len(ranges) |->
        fromStartEnd(positionAt(offsetAt(start(s)) + ranges[k][1]),
                     positionAt(offsetAt(start(s)) + ranges[k][2]),
                     isReversed(s), 0)]

RECURSIVE flat(_)
flat(seqs) == IF seqs = <<>> THEN <<>> ELSE Head(seqs) \o flat(Tail(seqs))

\* New objects: the k-th one gets the k-th identity that primary does not have.
withFreshIds(sels, primary) ==
    [k \in 1..Len(sels) |->
        [sels[k] EXCEPT !.id = IF primary.id = 0 \/ k < primary.id THEN k ELSE k + 1]]

split(sels, primary, re) ==
    withFreshIds(
        flat([k \in 1..Len(sels) |->
                rangesToSelections(sels[k], splitRange(getText(sels[k]), re, 0, 0))]),
        primary)

selectWithin(sels, primary, re) ==
    withFreshIds(
        flat([k \in 1..Len(sels) |->
                rangesToSelections(sels[k], execRange(getText(sels[k]), re, 0))]),
        primary)

-----------------------------------------------------------------------------
(* The state machine of a Selections object.                              *)

\* The arrays a caller can hand to the constructor: up to MaxSelections
\* distinct objects with any anchor and active of the document.
Inputs(max) ==
    UNION { { [k \in 1..n |-> Selection(f[k][1], f[k][2], k)] :
                f \in [1..n -> Positions \X Positions] } :
            n \in 0..max }

\* new Selections(selections): primarySelection defaults to selections[0],
\* read before the sort.
constructor(input) ==
    [selections |-> sort(input), primarySelection |-> nth(input, 0)]

Constructed(input) ==
        /\ selections = constructor(input).selections
        /\ primarySelection = constructor(input).primarySelection
        /\ lastOp = "constructor"
        /\ args = <<>>
        /\ ret = <<>>
        /\ derivations = 0

Init == \E input \in Inputs(MaxSelections) : Constructed(input)

MergeOverlapping ==
    /\ selections' = mergeOverlapping(selections, primarySelection)
    /\ lastOp' = "mergeOverlapping"
    /\ args' = values(selections)
    /\ ret' = mergeRestarts(selections, primarySelection, FALSE)
    /\ UNCHANGED <<primarySelection, derivations>>

MergeConsecutive ==
    /\ selections' = mergeConsecutive(selections, primarySelection)
    /\ lastOp' = "mergeConsecutive"
    /\ args' = values(selections)
    /\ ret' = mergeRestarts(selections, primarySelection, TRUE)
    /\ UNCHANGED <<primarySelection, derivations>>

RotateBy == (-MaxRotate)..MaxRotate

Rotate(by) ==
    /\ primarySelection' = rotateResult(selections, primarySelection, by)
    /\ lastOp' = "rotate"
    /\ args' = <<>>
    /\ ret' = <<>>
    /\ UNCHANGED <<selections, derivations>>

Lines ==
    /\ ret' = lines(selections)
    /\ lastOp' = "lines"
    /\ args' = <<>>
    /\ UNCHANGED <<selections, primarySelection, derivations>>

Split(re) ==
    /\ derivations < MaxDerivations
    /\ selections' = split(selections, primarySelection, re)
    /\ lastOp' = "split"
    /\ args' = <<>>
    /\ ret' = <<>>
    /\ derivations' = derivations + 1
    /\ UNCHANGED primarySelection

SelectWithin(re) ==
    /\ derivations < MaxDerivations
    /\ selections' = selectWithin(selections, primarySelection, re)
    /\ lastOp' = "selectWithin"
    /\ args' = <<>>
    /\ ret' = <<>>
    /\ derivations' = derivations + 1
    /\ UNCHANGED primarySelection

Next ==
    \/ MergeOverlapping
    \/ MergeConsecutive
    \/ \E by \in RotateBy : Rotate(by)
    \/ Lines
    \/ \E re \in RegExps : Split(re)
    \/ \E re \in RegExps : SelectWithin(re)

Spec == Init /\ [][Next]_vars

-----------------------------------------------------------------------------
(* The merge engine on larger collections: construction, then merges and  *)
(* the regex derivations, which are what yields unsorted collections.     *)

InitMerge == \E input \in Inputs(MaxMerged) : Constructed(input)

NextMerge ==
    \/ MergeOverlapping
    \/ MergeConsecutive
    \/ \E re \in RegExps : Split(re)
    \/ \E re \in RegExps : SelectWithin(re)

SpecMerge == InitMerge /\ [][NextMerge]_vars

-----------------------------------------------------------------------------
(* Constructed collections under the operations that keep them as they    *)
(* were constructed or merge them: no split, no selectWithin.             *)

NextConstructed ==
    \/ MergeOverlapping
    \/ MergeConsecutive
    \/ \E by \in RotateBy : Rotate(by)

SpecConstructed == InitMerge /\ [][NextConstructed]_vars

-----------------------------------------------------------------------------
(* The pure functions of selection.ts, applied to every pair of           *)
(* selections of the document.                                            *)

InitFn ==
    /\ selections = <<>>
    /\ primarySelection = Undefined
    /\ lastOp = "none"
    /\ args \in { <<Selection(a[1], a[2], 1), Selection(b[1], b[2], 2)>> :
                    a \in Positions \X Positions, b \in Positions \X Positions }
    /\ ret = <<>>
    /\ derivations = 0

Overlap ==
    /\ lastOp = "none"
    /\ ret' = <<overlap(args[1], args[2])>>
    /\ lastOp' = "overlap"
    /\ UNCHANGED <<selections, primarySelection, args, derivations>>

EndPosition ==
    /\ lastOp = "none"
    /\ ret' = <<endPosition(args[1])>>
    /\ lastOp' = "endPosition"
    /\ UNCHANGED <<selections, primarySelection, args, derivations>>

IsSingleCharacter ==
    /\ lastOp = "none"
    /\ ret' = <<isSingleCharacter(args[1])>>
    /\ lastOp' = "isSingleCharacter"
    /\ UNCHANGED <<selections, primarySelection, args, derivations>>

\* ret holds the selection behavior of the context, then the result.
IsStrictlyReversed(selectionBehavior) ==
    /\ lastOp = "none"
    /\ ret' = <<selectionBehavior, isStrictlyReversed(args[1], selectionBehavior)>>
    /\ lastOp' = "isStrictlyReversed"
    /\ UNCHANGED <<selections, primarySelection, args, derivations>>

\* ret holds the results of isEntireLine and of isEntireLines.
IsEntireLine ==
    /\ lastOp = "none"
    /\ ret' = <<isEntireLine(args[1]), isEntireLines(args[1])>>
    /\ lastOp' = "isEntireLine"
    /\ UNCHANGED <<selections, primarySelection, args, derivations>>

\* ret holds the direction, the reference, whether an empty selection is
\* made of one object, the selection behavior, then the result.
SeekFrom(direction, reference, oneObject, selectionBehavior) ==
    /\ lastOp = "none"
    /\ oneObject => isEmpty(args[1])
    /\ ret' = <<direction, reference, oneObject, selectionBehavior,
                seekFrom(args[1], direction, reference, oneObject,
                         args[2].anchor, selectionBehavior)>>
    /\ lastOp' = "seekFrom"
    /\ UNCHANGED <<selections, primarySelection, args, derivations>>

\* ret holds toCharacterMode([S]) and fromCharacterMode of it.
CharacterModeRoundTrip ==
    /\ lastOp = "none"
    /\ ret' = <<toCharacterMode(<<args[1]>>),
                fromCharacterMode(toCharacterMode(<<args[1]>>))>>
    /\ lastOp' = "fromCharacterMode"
    /\ UNCHANGED <<selections, primarySelection, args, derivations>>

NextFn ==
    \/ Overlap
    \/ \E direction \in Direction, reference \in References,
          oneObject \in BOOLEAN, selectionBehavior \in SelectionBehavior :
            SeekFrom(direction, reference, oneObject, selectionBehavior)
    \/ CharacterModeRoundTrip
    \/ EndPosition
    \/ IsSingleCharacter
    \/ \E selectionBehavior \in SelectionBehavior : IsStrictlyReversed(selectionBehavior)
    \/ IsEntireLine

SpecFn == InitFn /\ [][NextFn]_vars

-----------------------------------------------------------------------------
(* Vocabulary of the properties.                                          *)

\* The offsets of the characters a selection covers: start <= p < end.
chars(s) == { o \in 0..DocLength : offsetAt(start(s)) <= o /\ o < offsetAt(end(s)) }

covered(sels) == UNION { chars(sels[k]) : k \in 1..Len(sels) }

\* The selections a sequence of <<anchor, active>> values stands for.
asSelections(vals) == [k \in 1..Len(vals) |-> Selection(vals[k][1], vals[k][2], k)]

spansIntersect(a, b) == chars(a) \cap chars(b) # {}

isSorted(sels) ==
    \A k \in 1..(Len(sels) - 1) : isBeforeOrEqual(start(sels[k]), start(sels[k + 1]))

Merges == {"mergeOverlapping", "mergeConsecutive"}

\* The selections the last merge was applied to.
mergeInput == asSelections(args)

-----------------------------------------------------------------------------
(* Properties of the merge engine.                                        *)

\* C1: after mergeOverlapping, no two distinct selections of the collection
\* have intersecting [start, end) spans; a selection strictly inside
\* another one does not survive.
C1_MergedSpansDisjoint ==
    lastOp = "mergeOverlapping" =>
        \A i, j \in 1..Len(selections) :
            i # j => ~spansIntersect(selections[i], selections[j])

\* C2: mergeOverlapping is idempotent: applied to its own result it leaves
\* the sequence of selections (anchors and actives, in order) unchanged.
C2_MergeOverlappingIdempotent ==
    lastOp = "mergeOverlapping" =>
        values(mergeOverlapping(selections, primarySelection)) = values(selections)

\* C3: both merges preserve coverage: the characters covered by the output
\* selections are exactly those covered by the input selections.
C3_CoveragePreserved ==
    lastOp \in Merges => covered(selections) = covered(mergeInput)

\* C3 witness: a merge that combined selections of an input that was not
\* in ascending order of start, and that covers some characters.
C3_Witness ==
    /\ lastOp \in Merges
    /\ Len(selections) < Len(args)
    /\ ~isSorted(mergeInput)
    /\ Cardinality(covered(selections)) >= 2

\* Whether position p falls within [start, end) of the non-empty
\* selection n, or within [start, end] when consecutive merging is on.
fallsWithin(p, n, alsoMergeConsecutiveSelections) ==
    /\ isBeforeOrEqual(start(n), p)
    /\ \/ isBefore(p, end(n))
       \/ (alsoMergeConsecutiveSelections /\ isEqual(p, end(n)))

\* What C4 says of a merge of the two selections x and y, in this order.
mergedAsSpecified(x, y, alsoMergeConsecutiveSelections) ==
    LET merged == Len(selections) = 1
        kept   == values(selections) = args
    IN  IF isEmpty(x) /\ isEmpty(y)
        THEN merged <=> isEqual(start(x), start(y))
        ELSE IF isEmpty(x)
        THEN IF fallsWithin(start(x), y, alsoMergeConsecutiveSelections)
             THEN merged ELSE kept
        ELSE IF isEmpty(y)
        THEN IF fallsWithin(start(y), x, alsoMergeConsecutiveSelections)
             THEN merged ELSE kept
        ELSE TRUE

\* C4: in a merge of two selections, an empty selection is merged into a
\* non-empty one exactly when its position falls within the span of that
\* selection, whichever of the two comes first; an empty selection outside
\* the span is kept; two empty selections merge only when equal.
C4_EmptyMergedIffWithin ==
    (lastOp \in Merges /\ Len(args) = 2) =>
        mergedAsSpecified(mergeInput[1], mergeInput[2], lastOp = "mergeConsecutive")

\* Whether selection x lies within selection y (bounds included).
containedIn(x, y) ==
    isBeforeOrEqual(start(y), start(x)) /\ isBeforeOrEqual(end(x), end(y))

\* C5: mergeConsecutive merges at least what mergeOverlapping merges: on
\* the same input, every selection mergeOverlapping yields lies within a
\* selection mergeConsecutive yields, and mergeConsecutive does not yield
\* more selections.
C5_ConsecutiveMergesMore ==
    lastOp = "mergeConsecutive" =>
        LET overlapping == mergeOverlapping(mergeInput, Undefined)
        IN  /\ Len(selections) <= Len(overlapping)
            /\ \A i \in 1..Len(overlapping) :
                   \E j \in 1..Len(selections) :
                       containedIn(overlapping[i], selections[j])

allNonEmpty(sels) == \A k \in 1..Len(sels) : ~isEmpty(sels[k])

pairwiseDisjoint(sels) ==
    \A i, j \in 1..Len(sels) : i # j => ~spansIntersect(sels[i], sels[j])

\* Two non-empty selections of which one ends where the other starts.
touching(x, y) ==
    /\ ~isEmpty(x)
    /\ ~isEmpty(y)
    /\ isEqual(end(x), start(y)) \/ isEqual(end(y), start(x))

minPosition(p, q) == IF isBefore(p, q) THEN p ELSE q

maxPosition(p, q) == IF isBefore(p, q) THEN q ELSE p

\* C6: mergeOverlapping leaves a collection of non-empty, pairwise disjoint
\* selections unchanged, touching or not; mergeConsecutive of two touching
\* selections yields one selection from the smaller start to the larger end.
C6_DisjointKeptTouchingMerged ==
    /\ (lastOp = "mergeOverlapping" /\ allNonEmpty(mergeInput)
            /\ pairwiseDisjoint(mergeInput))
         => values(selections) = args
    /\ (lastOp = "mergeConsecutive" /\ Len(args) = 2
            /\ touching(mergeInput[1], mergeInput[2]))
         => /\ Len(selections) = 1
            /\ start(selections[1]) = minPosition(start(mergeInput[1]), start(mergeInput[2]))
            /\ end(selections[1]) = maxPosition(end(mergeInput[1]), end(mergeInput[2]))

\* C6 witness: mergeConsecutive has merged two touching selections into
\* one, and the constructor was given the later one first (the primary
\* selection is still the first one it was given).
C6_Witness ==
    /\ lastOp = "mergeConsecutive"
    /\ Len(args) = 2
    /\ touching(mergeInput[1], mergeInput[2])
    /\ value(primarySelection) = args[2]
    /\ args[1] # args[2]
    /\ Len(selections) = 1

-----------------------------------------------------------------------------
(* Properties of the collection.                                          *)

\* C7: a collection is never empty: no reachable collection has an empty
\* selection list or an undefined primary selection (constructing one from
\* zero selections, or reducing one to zero selections, is an error).
C7_NeverEmpty ==
    Len(selections) > 0 /\ primarySelection # Undefined

\* C8: rotation modulo law: when the primary selection is one of the n
\* selections, rotate(k) makes primary the selection at index
\* (currentIndex + k) mod n, for every integer k, negative ones included.
C8_RotateModulo ==
    [][\A by \in RotateBy :
          (Rotate(by) /\ indexOf(selections, primarySelection) >= 0) =>
              primarySelection' =
                  selections[((indexOf(selections, primarySelection) + by)
                                  % Len(selections)) + 1]]_vars

\* C9: lines() never returns the same line number twice, whatever the
\* collection, overlapping or nested multi-line selections included.
C9_LinesUnique ==
    lastOp = "lines" =>
        \A i, j \in 1..Len(ret) : i # j => ret[i] # ret[j]

-----------------------------------------------------------------------------
(* Properties of the pure functions.                                      *)

\* Whether two ranges share at least one position.
sharePosition(a, b) ==
    isAfterOrEqual(end(a), start(b)) /\ isAfterOrEqual(end(b), start(a))

\* C10: overlap(a, b) is true exactly when the ranges a and b share at
\* least one position, multi-line ranges with different end lines included.
C10_OverlapIffSharePosition ==
    lastOp = "overlap" => (ret[1] <=> sharePosition(args[1], args[2]))


\* C11: endPosition(sel) is the position made of endLine(sel) and
\* endCharacter(sel), also when the selection ends at column 0 of the
\* line after the last selected line.
C11_EndPositionFromLineAndCharacter ==
    lastOp = "endPosition" =>
        ret[1] = Position(endLine(args[1]), endCharacter(args[1]))

\* The last position of the document.
lastPosition == Position(lineCount - 1, lineLength(lineCount - 1))

touchesLastPosition(s) == isEqual(s.anchor, lastPosition) \/ isEqual(s.active, lastPosition)

\* C12: mode round trip: for every caret-mode selection S that does not
\* touch the last position of the document, empty or not, of any length,
\* forward or reversed, fromCharacterMode(toCharacterMode([S])) = [S].
C12_ModeRoundTrip ==
    (lastOp = "fromCharacterMode" /\ ~touchesLastPosition(args[1])) =>
        values(ret[2]) = values(<<args[1]>>)

\* The number of characters a selection covers, counted one by one.
characterCount(s) == Cardinality(chars(s))

\* C13: isSingleCharacter(sel) is true exactly when length(sel) is 1, on
\* one line or around exactly one line break.
C13_SingleCharacterIffLengthOne ==
    lastOp = "isSingleCharacter" =>
        /\ ret[1] <=> (length(args[1]) = 1)
        /\ ret[1] <=> (characterCount(args[1]) = 1)

\* A selection that wraps exactly one line break and nothing else.
C13_Witness ==
    /\ lastOp = "isSingleCharacter"
    /\ ret[1]
    /\ start(args[1]).line + 1 = end(args[1]).line

\* C14: isStrictlyReversed(sel) is true only of a selection that is
\* reversed, non-empty and, in Character mode, more than one character
\* long.
C14_StrictlyReversedOnlyIfDirectional ==
    lastOp = "isStrictlyReversed" =>
        (ret[2] => /\ isReversed(args[1])
                   /\ ~isEmpty(args[1])
                   /\ (ret[1] = "Character" => characterCount(args[1]) > 1))

\* The position a seekFrom call was given, and its offset.
seekPosition == referencePosition(args[1], ret[2], args[2].anchor)

lineBreakCount(s) == Cardinality({ o \in chars(s) : charAt(o) = LineBreak })

atLineStarts(s) == start(s).character = 0 /\ end(s).character = 0

\* C16: isEntireLine(sel) iff start.character = end.character = 0 and the
\* selection spans exactly one line break; isEntireLines(sel) iff
\* start.character = end.character = 0 and it spans more than one line
\* break; no selection satisfies both.
C16_EntireLineXorEntireLines ==
    lastOp = "isEntireLine" =>
        /\ ret[1] <=> (atLineStarts(args[1]) /\ lineBreakCount(args[1]) = 1)
        /\ ret[2] <=> (atLineStarts(args[1]) /\ lineBreakCount(args[1]) > 1)
        /\ ~(ret[1] /\ ret[2])

\* C16, amended: isEntireLines(sel) iff start.character = end.character = 0
\* and the selection spans one line break or more, so that every selection
\* that is an entire line is also entire lines.
C16_EntireLineImpliesEntireLines ==
    lastOp = "isEntireLine" =>
        /\ ret[1] <=> (atLineStarts(args[1]) /\ lineBreakCount(args[1]) = 1)
        /\ ret[2] <=> (atLineStarts(args[1]) /\ lineBreakCount(args[1]) >= 1)
        /\ ret[1] => ret[2]

\* A selection of exactly one entire line, which is both.
C16_Witness ==
    /\ lastOp = "isEntireLine"
    /\ ret[1]
    /\ ret[2]


-----------------------------------------------------------------------------
(* Properties of the collection across merges.                            *)

isOneOf(sels, primary) == indexOf(sels, primary) >= 0

\* C17: the primary selection is always one of the selections: a merge of
\* a collection that holds its primary selection leaves a collection that
\* holds its primary selection, never a primary that was removed or
\* replaced by a merged selection.
C17_PrimaryAmongSelections ==
    [][((MergeOverlapping \/ MergeConsecutive)
            /\ isOneOf(selections, primarySelection))
          => isOneOf(selections', primarySelection')]_vars

\* C18: right after construction and after any sequence of
\* mergeOverlapping, mergeConsecutive and rotate calls on a constructed
\* collection, the selections are in ascending order of start position.
C18_SortedAfterConstructionAndMerges ==
    isSorted(selections)

\* Three selections given out of order, of which a merge joined two.
C18_Witness ==
    /\ lastOp \in Merges
    /\ Len(mergeInput) = 3
    /\ Len(selections) = 2
    /\ isBefore(start(selections[1]), start(selections[2]))
    /\ primarySelection.id = 1
    /\ primarySelection # selections[1]

\* C19: the merge sweep finishes on every collection: the scan for each i
\* (counted from 0) restarts at most count - i - 1 times.
C19_RestartsBounded ==
    lastOp \in Merges =>
        /\ Len(ret) = Len(mergeInput)
        /\ \A i \in 1..Len(ret) : ret[i] <= Len(mergeInput) - i

\* A merge of three selections whose first scan restarted twice, as often
\* as the bound allows.
C19_Witness ==
    /\ lastOp \in Merges
    /\ Len(mergeInput) = 3
    /\ ret[1] = 2

=============================================================================
